---- MODULE Spec2Model ----
(***************************************************************************)
(* A model of tikzmagic.py: the %%tikz cell magic.  One render is the call *)
(* tikz(line, cell): parse the flags, validate input_file, assemble the    *)
(* LaTeX document, then latex2image: mkdtemp, write tikzfile.tex, run      *)
(* xelatex, test for tikzfile.pdf, optionally copy it to export_file, run  *)
(* magick convert, read tikzfile.png, and rmtree the directory in the      *)
(* finally clause.                                                         *)
(*                                                                         *)
(* Text is a sequence of tokens.  A path is a sequence of components.      *)
(* The file system maps every path to an entry.  The two external          *)
(* programs and the I/O calls that can fail are nondeterministic.          *)
(* A scale is n/8, so that scale * 300 is exact in binary floating point.  *)
(* The flags -p, -x, -l and -b keep their defaults, and --debug, which     *)
(* only prints, is left out.                                              *)
(***************************************************************************)
EXTENDS Integers, Sequences, FiniteSets

\* ------------------------------------------------------------- bounds

\* Longest cell body, in tokens.
MaxBodyLen == 1

\* Number of directory names tempfile.mkdtemp can draw from.
NumTempNames == 2

\* ---------------------------------------------------------- constants

\* int(args.scale * 300)
DensityPerScale == 300

Procs == {1, 2}

None == "<None>"

NonePath == <<>>

Truthy(s) == s # None /\ s # ""

BEGIN_TIKZ == "\\begin{tikzpicture}"

END_TIKZ == "\\end{tikzpicture}"

BodyTokens == {"\\draw (0,0) circle (1);", BEGIN_TIKZ}

RECURSIVE SeqsUpTo(_, _)
SeqsUpTo(S, n) ==
  IF n = 0 THEN {<<>>}
  ELSE LET shorter == SeqsUpTo(S, n - 1)
       IN shorter \cup {Append(s, t) : s \in {x \in shorter : Len(x) = n - 1}, t \in S}

Bodies == SeqsUpTo(BodyTokens, MaxBodyLen)

\* ------------------------------------------------------- file system

Cwd == <<"cwd">>

CwdNames == {"in", "out", "dir", "gone"}

TempPool == <<"tmpA", "tmpB", "tmpC", "tmpD">>

TempNames == {TempPool[i] : i \in 1..NumTempNames}

TempFiles == {"tikzfile.tex", "tikzfile.pdf", "tikzfile.png", "tikzfile.log"}

Paths ==
  {Cwd} \cup {<<"cwd", n>> : n \in CwdNames}
        \cup {<<t>> : t \in TempNames}
        \cup {<<t, f>> : t \in TempNames, f \in TempFiles}

Absent == [kind |-> "absent", fmt |-> "", doc |-> <<>>, inc |-> {}, dens |-> 0]

Dir == [kind |-> "dir", fmt |-> "", doc |-> <<>>, inc |-> {}, dens |-> 0]

File(fmt, doc, inc, dens) ==
  [kind |-> "file", fmt |-> fmt, doc |-> doc, inc |-> inc, dens |-> dens]

InFile == File("txt", <<"\\draw (1,1);">>, {}, 0)

OldOut == File("pdf", <<"old">>, {}, 0)

\* os.path.join(a, b) for a relative b; join(a, '') names a itself.
join(a, b) == IF b = "" THEN a ELSE Append(a, b)

exists(fsys, path) == path \in Paths /\ fsys[path].kind # "absent"

isfile(fsys, path) == path \in Paths /\ fsys[path].kind = "file"

Under(d) == {q \in Paths : Len(q) >= Len(d) /\ SubSeq(q, 1, Len(d)) = d}

\* The path as text: its components joined by the separator of the OS.
RECURSIVE PathText(_, _)
PathText(path, sep) ==
  IF Len(path) = 0 THEN <<>>
  ELSE IF Len(path) = 1 THEN <<path[1]>>
  ELSE <<path[1], sep>> \o PathText(Tail(path), sep)

Sep(os) == IF os = "nt" THEN "\\" ELSE "/"

\* str.replace(old, new) on a token sequence.
replace(text, old, new) ==
  [i \in 1..Len(text) |-> IF text[i] = old THEN new ELSE text[i]]

\* ----------------------------------------------------------- numbers

\* int(x) for x = num/den, den > 0: truncation toward zero.
int(num, den) == IF num >= 0 THEN num \div den ELSE -((-num) \div den)

Digit(d) == SubSeq(<<"0", "1", "2", "3", "4", "5", "6", "7", "8", "9">>, d + 1, d + 1)

RECURSIVE NatStr(_)
NatStr(n) == IF n < 10 THEN Digit(n) ELSE NatStr(n \div 10) \o Digit(n % 10)

\* str(n) for an int n.
str(n) == IF n < 0 THEN <<"-">> \o NatStr(-n) ELSE NatStr(n)

DigitVal(c) == CHOOSE d \in 0..9 : Digit(d) = <<c>>

RECURSIVE NatVal(_)
NatVal(s) == IF Len(s) = 0 THEN 0 ELSE 10 * NatVal(SubSeq(s, 1, Len(s) - 1)) + DigitVal(s[Len(s)])

\* The number an external program reads from a decimal argument.
atoi(s) == IF Len(s) > 0 /\ s[1] = "-" THEN -NatVal(Tail(s)) ELSE NatVal(s)

\* ----------------------------------------------------------- requests

\* The values argparse accepts for -s: a float literal n/8, nan, inf; "junk"
\* is text float() rejects; "default" is the flag left out (default=1).
Scales ==
  {[kind |-> k, n |-> 0] : k \in {"junk", "nan", "inf"}}
    \cup {[kind |-> "default", n |-> 8]}
    \cup {[kind |-> "num", n |-> n] : n \in {-1, 0, 1, 12}}

Line(body, i, e, s, w) ==
  [cell |-> body, input_file |-> i, export_file |-> e, scale |-> s, wrap_env |-> w,
   latex_packages |-> <<>>, latex_preamble |-> <<>>, tikz_libraries |-> <<>>,
   border |-> <<"4">>]

Lines ==
  {Line(b, i, e, s, w) :
     b \in Bodies, i \in {None, "", "in", "dir", "gone"},
     e \in {None, "", "out", "in"}, s \in Scales, w \in BOOLEAN}

\* The requests of the two concurrent renders.
ConcLines ==
  {Line(<<"\\draw (0,0) circle (1);">>, i, e, [kind |-> "default", n |-> 8], TRUE) :
     i \in {None, "in"}, e \in {None, "out", "in"}}

NoLine == Line(<<>>, None, None, [kind |-> "default", n |-> 8], TRUE)

\* LATEX_TEMPLATE.format(content=..., border=..., latex_pre=..., latex_pkgs=...,
\* tikz_libs=...): the template with {{ and }} unescaped and the five fields filled.
LATEX_TEMPLATE(content, border, latex_pre, latex_pkgs, tikz_libs) ==
  <<"\n\\documentclass[tikz,border=">> \o border
    \o <<"]{standalone}\n\\usepackage{tikz,">> \o latex_pkgs
    \o <<"}\n\\usetikzlibrary{">> \o tikz_libs
    \o <<"}\n">> \o latex_pre
    \o <<"\n\\begin{document}\n">> \o content
    \o <<"\n\\end{document}\n">>

\* r'\input{%s}' % ifile, with '\\' replaced by '/' on Windows.
InputDirective(ifile, os) ==
  <<"\\input{">>
    \o (IF os = "nt" THEN replace(PathText(ifile, Sep(os)), "\\", "/")
        ELSE PathText(ifile, Sep(os)))
    \o <<"}">>

AddInputBefore(body, directive) == directive \o body

\* cell += r'\input{...}'
AddInput(body, directive) == body \o directive

\* cell = r'\begin{tikzpicture}' + cell + r'\end{tikzpicture}'
Wrap(text) == <<BEGIN_TIKZ>> \o text \o <<END_TIKZ>>

\* The files of the working directory a compiled document \input's.
IncludedNames(doc) ==
  {n \in CwdNames :
     \E i \in 1..Len(doc) :
       i + 4 <= Len(doc) /\ SubSeq(doc, i, i + 4) = <<"\\input{", "cwd", "/", n, "}">>}

\* ------------------------------------------------------------- state

VARIABLES
  line,         \* per render: the parsed flags and the cell body
  os_name,      \* os.name
  fs0,          \* the file system before the renders
  fs,           \* the file system
  writer,       \* per path: the render that wrote the entry there, 0 if none
  shared,       \* <<p, q, path>>: render p touched an entry render q wrote
  pc,           \* per render: its position
  cell,         \* tikz's cell after the input directive and the wrapper
  latex,        \* tikz's latex
  density,      \* latex2image's density
  export_file,  \* latex2image's export_file (NonePath for None)
  temp_dir,     \* latex2image's temp_dir (NonePath while unbound)
  err,          \* the exception in flight or raised ("" for none)
  result,       \* the data of the returned Image
  trace,        \* the steps the render has taken
  returncode,   \* what subprocess.call(['xelatex', ...]) returned
  pdf,          \* the entry at temp_pdf when the compiler returned
  argv          \* the -density argument of the magick command line

vars ==
  <<line, os_name, fs0, fs, writer, shared, pc, cell, latex, density, export_file,
    temp_dir, err, result, trace, returncode, pdf, argv>>

Fs0(outOld) ==
  [q \in Paths |->
     IF q = Cwd \/ q = <<"cwd", "dir">> THEN Dir
     ELSE IF q = <<"cwd", "in">> THEN InFile
     ELSE IF q = <<"cwd", "out">> /\ outOld THEN OldOut
     ELSE Absent]

InitWith(active, lines, oses, olds) ==
  /\ \E l1 \in lines, l2 \in (IF 2 \in active THEN lines ELSE {NoLine}) :
       line = [p \in Procs |-> IF p = 1 THEN l1 ELSE l2]
  /\ os_name \in oses
  /\ \E outOld \in olds : fs0 = Fs0(outOld)
  /\ fs = fs0
  /\ writer = [q \in Paths |-> 0]
  /\ shared = {}
  /\ pc = [p \in Procs |-> IF p \in active THEN "tikz" ELSE "off"]
  /\ cell = [p \in Procs |-> <<>>]
  /\ latex = [p \in Procs |-> <<>>]
  /\ density = [p \in Procs |-> 0]
  /\ export_file = [p \in Procs |-> NonePath]
  /\ temp_dir = [p \in Procs |-> NonePath]
  /\ err = [p \in Procs |-> ""]
  /\ result = [p \in Procs |-> Absent]
  /\ trace = [p \in Procs |-> <<>>]
  /\ returncode = [p \in Procs |-> 0]
  /\ pdf = [p \in Procs |-> Absent]
  /\ argv = [p \in Procs |-> <<>>]

\* One render.
Init == InitWith({1}, Lines, {"posix", "nt"}, BOOLEAN)

\* Two renders at once, with a file already at "out".
InitConc == InitWith({1, 2}, ConcLines, {"posix"}, {TRUE})

\* ------------------------------------------------------------ helpers

OnExceptionNoFinally == "raised"

\* Where an exception raised inside latex2image's try block goes: the finally
\* clause runs before the exception leaves the call.
OnException == "rmtree"

\* The entries among paths that another render wrote, as render p touches them.
Touch(p, paths) ==
  {<<p, writer[q], q>> : q \in {x \in paths : exists(fs, x) /\ writer[x] \notin {0, p}}}

Step(p, name) == trace' = [trace EXCEPT ![p] = Append(@, name)]

Goto(p, where) == pc' = [pc EXCEPT ![p] = where]

Raise(p, e, where) ==
  /\ err' = [err EXCEPT ![p] = e]
  /\ Goto(p, where)

\* args.input_file resolved against the working directory.
Ifile(l) == join(Cwd, l.input_file)

\* The cell after lines 47-61.
Content(l, os) ==
  LET withInput == IF Truthy(l.input_file)
                   THEN AddInput(l.cell, InputDirective(Ifile(l), os))
                   ELSE l.cell
  IN IF l.wrap_env THEN Wrap(withInput) ELSE withInput

\* int(args.scale * 300) for a scale that is a finite number.
Density(scale) == int(scale.n * DensityPerScale, 8)

\* parser.parse_args(shlex.split(line)): type=float rejects text float() cannot read.
ScaleRejectedNonPositive(l) ==
  l.scale.kind = "junk" \/ (l.scale.kind = "num" /\ l.scale.n <= 0)

ScaleRejected(l) == l.scale.kind = "junk"

\* if exists(ifile) and isfile(ifile):
InputFileOkExistsOnly(l) == exists(fs, Ifile(l))

InputFileOk(l) == exists(fs, Ifile(l)) /\ isfile(fs, Ifile(l))

\* ------------------------------------------------------------ actions

\* tikz(line, cell) up to its call of latex2image.
tikz(p) ==
  /\ pc[p] = "tikz"
  /\ LET l == line[p] IN
       IF ScaleRejected(l)
       THEN \* parser.parse_args: float() rejects the text
            /\ Raise(p, "SystemExit", "raised")
            /\ UNCHANGED <<cell, latex, density, export_file, trace>>
       ELSE IF Truthy(l.input_file) /\ ~InputFileOk(l)
       THEN /\ Raise(p, "inputfile", "raised")
            /\ Step(p, "validate")
            /\ UNCHANGED <<cell, latex, density, export_file>>
       ELSE /\ cell' = [cell EXCEPT ![p] = Content(l, os_name)]
            /\ latex' = [latex EXCEPT ![p] =
                 LATEX_TEMPLATE(Content(l, os_name), l.border, l.latex_preamble,
                                l.latex_packages, l.tikz_libraries)]
            /\ export_file' = [export_file EXCEPT ![p] =
                 IF Truthy(l.export_file) THEN join(Cwd, l.export_file) ELSE NonePath]
            /\ trace' = [trace EXCEPT ![p] = @ \o <<"validate", "assemble">>]
            /\ IF l.scale.kind = "nan" THEN
                 Raise(p, "ValueError", "raised") /\ UNCHANGED density
               ELSE IF l.scale.kind = "inf" THEN
                 Raise(p, "OverflowError", "raised") /\ UNCHANGED density
               ELSE /\ density' = [density EXCEPT ![p] = Density(l.scale)]
                    /\ Goto(p, "mkdtemp")
                    /\ UNCHANGED err
  /\ UNCHANGED <<line, os_name, fs0, fs, writer, shared, temp_dir, result,
                 returncode, pdf, argv>>

FixedName == {TempPool[1]}

\* The names tempfile.mkdtemp may return: those of no existing entry.
FreshNames == {t \in TempNames : ~exists(fs, <<t>>)}

\* temp_dir = tempfile.mkdtemp()
mkdtemp(p) ==
  /\ pc[p] = "mkdtemp"
  /\ \/ \E t \in FreshNames :
          /\ temp_dir' = [temp_dir EXCEPT ![p] = <<t>>]
          /\ fs' = [fs EXCEPT ![<<t>>] = Dir]
          /\ writer' = [writer EXCEPT ![<<t>>] = p]
          /\ Goto(p, "write")
          /\ UNCHANGED err
     \/ \* mkdtemp raises; the finally clause then reads the unbound temp_dir
        /\ Raise(p, "UnboundLocalError", "raised")
        /\ UNCHANGED <<temp_dir, fs, writer>>
  /\ Step(p, "mkdtemp")
  /\ UNCHANGED <<line, os_name, fs0, shared, cell, latex, density, export_file,
                 result, returncode, pdf, argv>>

temp_tex(p) == join(temp_dir[p], "tikzfile.tex")

temp_pdf(p) == join(temp_dir[p], "tikzfile.pdf")

temp_png(p) == join(temp_dir[p], "tikzfile.png")

temp_log(p) == join(temp_dir[p], "tikzfile.log")

\* with open(temp_tex, 'w') as t: t.write(latex)
write_tex(p) ==
  /\ pc[p] = "write"
  /\ \/ /\ fs' = [fs EXCEPT ![temp_tex(p)] = File("tex", latex[p], {}, 0)]
        /\ writer' = [writer EXCEPT ![temp_tex(p)] = p]
        /\ Goto(p, "latex")
        /\ UNCHANGED err
     \/ /\ Raise(p, "IOError:tex", OnException)
        /\ UNCHANGED <<fs, writer>>
  /\ shared' = shared \cup Touch(p, {temp_dir[p], temp_tex(p)})
  /\ Step(p, "write")
  /\ UNCHANGED <<line, os_name, fs0, cell, latex, density, export_file, temp_dir,
                 result, returncode, pdf, argv>>

\* What xelatex typesets from the .tex file it is given: the document and the
\* files of the working directory the document \input's, as they are then.
Typeset(tex) ==
  File("pdf", tex.doc, {<<n, fs[<<"cwd", n>>].fmt>> : n \in IncludedNames(tex.doc)}, 0)

\* sh_latex(in_file=temp_tex, out_dir=temp_dir): subprocess.call(['xelatex', ...]).
\* The exit code is dropped; xelatex writes its log, and a PDF or none.
sh_latex(p) ==
  /\ pc[p] = "latex"
  /\ \/ \E code \in {0, 1}, made \in BOOLEAN :
          /\ returncode' = [returncode EXCEPT ![p] = code]
          /\ fs' = [fs EXCEPT
               ![temp_log(p)] = File("log", <<>>, {}, code),
               ![temp_pdf(p)] = IF made /\ isfile(fs, temp_tex(p))
                                THEN Typeset(fs[temp_tex(p)]) ELSE @]
          /\ writer' = [writer EXCEPT
               ![temp_log(p)] = p,
               ![temp_pdf(p)] = IF made /\ isfile(fs, temp_tex(p)) THEN p ELSE @]
          /\ pdf' = [pdf EXCEPT ![p] = fs'[temp_pdf(p)]]
          /\ Goto(p, "check")
          /\ UNCHANGED err
     \/ \* the program cannot be started
        /\ Raise(p, "OSError:xelatex", OnException)
        /\ UNCHANGED <<fs, writer, returncode, pdf>>
  /\ shared' = shared \cup
       Touch(p, {temp_dir[p], temp_tex(p), temp_pdf(p), temp_log(p)}
                  \cup {<<"cwd", n>> : n \in IncludedNames(fs[temp_tex(p)].doc)})
  /\ Step(p, "compile")
  /\ UNCHANGED <<line, os_name, fs0, cell, latex, density, export_file, temp_dir,
                 result, argv>>

PdfMissingOrFailed(p) == ~isfile(fs, temp_pdf(p)) \/ returncode[p] # 0

PdfNeverMissing(p) == FALSE

\* if not isfile(temp_pdf): raise Exception("xelatex didn't produce a PDF file.")
PdfMissing(p) == ~isfile(fs, temp_pdf(p))

\* if export_file:
WantsExport(p) == export_file[p] # NonePath

AfterCheckNoExport(p) == "convert"

\* Lines 100-104: the copy, if asked for, comes before the conversion.
AfterCheck(p) == IF WantsExport(p) THEN "export" ELSE "convert"

check_pdf(p) ==
  /\ pc[p] = "check"
  /\ IF PdfMissing(p)
     THEN Raise(p, "NoPDF", OnException)
     ELSE Goto(p, AfterCheck(p)) /\ UNCHANGED err
  /\ shared' = shared \cup Touch(p, {temp_pdf(p)})
  /\ Step(p, "check")
  /\ UNCHANGED <<line, os_name, fs0, fs, writer, cell, latex, density, export_file,
                 temp_dir, result, returncode, pdf, argv>>

CopySourceTex(p) == temp_tex(p)

\* The first argument of shutil.copyfile(temp_pdf, export_file).
CopySource(p) == temp_pdf(p)

\* shutil.copyfile(temp_pdf, export_file)
copyfile(p) ==
  /\ pc[p] = "export"
  /\ \/ /\ fs[export_file[p]].kind # "dir"
        /\ fs' = [fs EXCEPT ![export_file[p]] = fs[CopySource(p)]]
        /\ writer' = [writer EXCEPT ![export_file[p]] = p]
        /\ Goto(p, "convert")
        /\ UNCHANGED err
     \/ /\ Raise(p, "IOError:copy", OnException)
        /\ UNCHANGED <<fs, writer>>
  /\ shared' = shared \cup Touch(p, {CopySource(p), export_file[p]})
  /\ Step(p, "export")
  /\ UNCHANGED <<line, os_name, fs0, cell, latex, density, export_file, temp_dir,
                 result, returncode, pdf, argv>>

DensityArgDefault(p) == str(96)

\* The '-density' argument of ['magick', 'convert', '-density', str(density), ...].
DensityArg(p) == str(density[p])

\* What magick convert rasterizes from a PDF at the density it is given.
Rasterize(src, arg) == File("png", src.doc, src.inc, atoi(arg))

\* sh_convert(in_file=temp_pdf, out_file=temp_png, density=density)
sh_convert(p) ==
  /\ pc[p] = "convert"
  /\ argv' = [argv EXCEPT ![p] = DensityArg(p)]
  /\ \/ \E made \in BOOLEAN :
          /\ fs' = [fs EXCEPT ![temp_png(p)] =
               IF made /\ isfile(fs, temp_pdf(p))
               THEN Rasterize(fs[temp_pdf(p)], DensityArg(p)) ELSE @]
          /\ writer' = [writer EXCEPT ![temp_png(p)] =
               IF made /\ isfile(fs, temp_pdf(p)) THEN p ELSE @]
          /\ Goto(p, "read")
          /\ UNCHANGED err
     \/ \* the program cannot be started
        /\ Raise(p, "OSError:magick", OnException)
        /\ UNCHANGED <<fs, writer>>
  /\ shared' = shared \cup Touch(p, {temp_dir[p], temp_pdf(p), temp_png(p)})
  /\ Step(p, "convert")
  /\ UNCHANGED <<line, os_name, fs0, cell, latex, density, export_file, temp_dir,
                 result, returncode, pdf>>

\* return Image(data=open(temp_png, "rb").read())
read_png(p) ==
  /\ pc[p] = "read"
  /\ IF isfile(fs, temp_png(p))
     THEN /\ result' = [result EXCEPT ![p] = fs[temp_png(p)]]
          /\ Goto(p, "rmtree")
          /\ UNCHANGED err
     ELSE /\ Raise(p, "IOError:png", OnException)
          /\ UNCHANGED result
  /\ shared' = shared \cup Touch(p, {temp_png(p)})
  /\ Step(p, "read")
  /\ UNCHANGED <<line, os_name, fs0, fs, writer, cell, latex, density, export_file,
                 temp_dir, returncode, pdf, argv>>

\* finally: shutil.rmtree(temp_dir); then the return or the exception goes on.
rmtree(p) ==
  /\ pc[p] = "rmtree"
  /\ fs' = [q \in Paths |-> IF q \in Under(temp_dir[p]) THEN Absent ELSE fs[q]]
  /\ writer' = [q \in Paths |-> IF q \in Under(temp_dir[p]) THEN 0 ELSE writer[q]]
  /\ shared' = shared \cup Touch(p, Under(temp_dir[p]))
  /\ Goto(p, IF err[p] = "" THEN "returned" ELSE "raised")
  /\ Step(p, "rmtree")
  /\ UNCHANGED <<line, os_name, fs0, cell, latex, density, export_file, temp_dir,
                 err, result, returncode, pdf, argv>>

Next ==
  \E p \in Procs :
    \/ tikz(p)
    \/ mkdtemp(p)
    \/ write_tex(p)
    \/ sh_latex(p)
    \/ check_pdf(p)
    \/ copyfile(p)
    \/ sh_convert(p)
    \/ read_png(p)
    \/ rmtree(p)

Spec == Init /\ [][Next]_vars

SpecConc == InitConc /\ [][Next]_vars

Done(p) == pc[p] \in {"returned", "raised"}

\* ------------------------------------------------------------- claims

Steps(p) == {trace[p][i] : i \in 1..Len(trace[p])}

Count(t, name) == Cardinality({i \in 1..Len(t) : t[i] = name})

StepOrder ==
  <<"validate", "assemble", "mkdtemp", "write", "compile", "check", "export",
    "convert", "read", "rmtree">>

Idx(name) == CHOOSE i \in 1..Len(StepOrder) : StepOrder[i] = name

InOrder(t) == \A i, j \in 1..Len(t) : i < j => Idx(t[i]) < Idx(t[j])

TempGone(p) == \A q \in Under(temp_dir[p]) : fs[q] = Absent

CwdUnchanged == \A n \in CwdNames : fs[<<"cwd", n>>] = fs0[<<"cwd", n>>]

\* C1: once a call of latex2image that created its temporary directory has
\* ended, normally or with any exception, the directory and everything in it
\* are gone.
C1_TempDirRemoved ==
  \A p \in Procs : Done(p) /\ temp_dir[p] # NonePath => TempGone(p)

\* A render whose export copy failed has ended, and its directory is gone.
C1_Witness ==
  \E p \in Procs :
    /\ pc[p] = "raised" /\ err[p] = "IOError:copy"
    /\ temp_dir[p] # NonePath /\ "rmtree" \in Steps(p) /\ TempGone(p)

\* C2: with an input_file that is not a regular file in the working
\* directory, tikz has failed once it has run, with no temporary directory
\* created, no external program run and the file system untouched.
C2_MissingInputFails ==
  \A p \in Procs :
    (/\ pc[p] # "tikz" /\ pc[p] # "off"
     /\ Truthy(line[p].input_file)
     /\ fs0[join(Cwd, line[p].input_file)].kind # "file")
    => /\ pc[p] = "raised"
       /\ err[p] \in {"inputfile", "SystemExit"}
       /\ temp_dir[p] = NonePath
       /\ Steps(p) \cap {"mkdtemp", "write", "compile", "convert"} = {}
       /\ fs = fs0

\* The input_file names a directory: it exists, and is no regular file.
C2_Witness ==
  \E p \in Procs :
    /\ line[p].input_file = "dir" /\ pc[p] = "raised" /\ err[p] = "inputfile"
    /\ temp_dir[p] = NonePath

\* C3: once the compiler has returned and the PDF has been tested for, the
\* render fails with the compilation error exactly when no tikzfile.pdf was
\* there, whatever the exit code; and when it has ended with that error the
\* temporary directory is gone.
C3_NoPdfIffFailure ==
  \A p \in Procs :
    /\ "check" \in Steps(p) => ((err[p] = "NoPDF") <=> (pdf[p].kind # "file"))
    /\ "compile" \in Steps(p) /\ Done(p) /\ err[p] # "OSError:xelatex"
         => "check" \in Steps(p)
    /\ Done(p) /\ err[p] = "NoPDF" => TempGone(p)

\* The compiler exited with 0 and left no PDF: the render failed.
C3_Witness ==
  \E p \in Procs :
    /\ pc[p] = "raised" /\ err[p] = "NoPDF" /\ returncode[p] = 0
    /\ pdf[p].kind # "file" /\ TempGone(p)

\* C4: with export_file set, once the rasterizer has been invoked, and so
\* once the call has returned, the file at join(cwd, export_file) is the
\* intermediate PDF, entry for entry.
C4_ExportIsThePdf ==
  \A p \in Procs :
    Truthy(line[p].export_file) =>
      /\ pc[p] = "returned" => "convert" \in Steps(p)
      /\ "convert" \in Steps(p) =>
           /\ pdf[p].kind = "file" /\ pdf[p].fmt = "pdf"
           /\ fs[join(Cwd, line[p].export_file)] = pdf[p]

\* A render has returned and its PDF has replaced the old file at export_file.
C4_Witness ==
  \E p \in Procs :
    /\ pc[p] = "returned" /\ line[p].export_file = "out"
    /\ fs0[<<"cwd", "out">>] = OldOut
    /\ fs[<<"cwd", "out">>] = pdf[p] /\ pdf[p] # OldOut

RasterizerAfterPdf(p) ==
  "convert" \in Steps(p) =>
    /\ {"compile", "check"} \subseteq Steps(p)
    /\ pdf[p].kind = "file"
    /\ Truthy(line[p].export_file) =>
         "export" \in Steps(p) /\ fs[join(Cwd, line[p].export_file)] = pdf[p]

\* C5 as stated: the steps come in the fixed order, the compiler runs exactly
\* once in every render that passed validation, the rasterizer runs at most
\* once and only after the PDF was found and the export made.
C5_Original ==
  \A p \in Procs :
    /\ InOrder(trace[p])
    /\ Done(p) /\ "assemble" \in Steps(p) => Count(trace[p], "compile") = 1
    /\ Count(trace[p], "convert") <= 1
    /\ RasterizerAfterPdf(p)

\* C5 amended: the steps come in the fixed order with none repeated, the
\* compiler runs at most once, and exactly once in every render that wrote
\* its .tex file; the rasterizer runs at most once and only after the PDF
\* was found and the export made.
C5_FixedOrder ==
  \A p \in Procs :
    /\ InOrder(trace[p])
    /\ Count(trace[p], "compile") <= 1
    /\ (Done(p) /\ "write" \in Steps(p) /\ err[p] # "IOError:tex")
         => Count(trace[p], "compile") = 1
    /\ "compile" \in Steps(p) => "write" \in Steps(p) /\ err[p] # "IOError:tex"
    /\ Count(trace[p], "convert") <= 1
    /\ RasterizerAfterPdf(p)

\* A render has gone through all ten steps.
C5_Witness ==
  \E p \in Procs : pc[p] = "returned" /\ trace[p] = StepOrder

\* A render between its mkdtemp and the end of its rmtree.
HasTemp(p) == pc[p] \in {"write", "latex", "check", "export", "convert", "read", "rmtree"}

OwnTempDirs ==
  \A p, q \in Procs : p # q /\ HasTemp(p) /\ HasTemp(q) => temp_dir[p] # temp_dir[q]

\* The PNG the render returns when nothing else runs: its own document, the
\* \input files as they were before the render, its own density.
AloneResult(p) ==
  File("png", latex[p],
       {<<n, fs0[<<"cwd", n>>].fmt>> : n \in IncludedNames(latex[p])}, density[p])

ExportPath(l) == IF Truthy(l.export_file) THEN join(Cwd, l.export_file) ELSE NonePath

InputPath(l) == IF Truthy(l.input_file) THEN join(Cwd, l.input_file) ELSE NonePath

\* C6 as stated: two concurrent renders have each their own temporary
\* directory, neither touches a file the other wrote, and each returns what
\* it returns alone.
C6_Original ==
  /\ OwnTempDirs
  /\ shared = {}
  /\ \A p \in Procs : pc[p] = "returned" => result[p] = AloneResult(p)

\* C6 amended: two concurrent renders have each their own temporary
\* directory and neither touches a file inside the other's; the only entries
\* one render writes and the other touches are at the writer's export_file,
\* and only when that path is also the other's export_file or input_file; a
\* render returns what it returns alone unless the other's export_file is
\* its input_file.
C6_OnlyExportShared ==
  /\ OwnTempDirs
  /\ \A e \in shared :
       /\ e[3] = ExportPath(line[e[2]])
       /\ e[3] \in {ExportPath(line[e[1]]), InputPath(line[e[1]])}
  /\ \A p, q \in Procs :
       (/\ p # q /\ pc[p] = "returned"
        /\ (InputPath(line[p]) = NonePath \/ InputPath(line[p]) # ExportPath(line[q])))
       => result[p] = AloneResult(p)

\* Both renders have returned, from different directories, and the second
\* copy to the common export_file has overwritten the first.
C6_Witness ==
  /\ pc[1] = "returned" /\ pc[2] = "returned"
  /\ temp_dir[1] # temp_dir[2]
  /\ line[1].export_file = "out" /\ line[2].export_file = "out"
  /\ shared # {}

\* The content the claim describes: the body, then the \input directive of
\* the resolved path when input_file is given, the whole between
\* \begin{tikzpicture} and \end{tikzpicture} unless --no-wrap.
ClaimedContent(l) ==
  LET T == IF Truthy(l.input_file)
           THEN l.cell \o <<"\\input{", "cwd", "/", l.input_file, "}">>
           ELSE l.cell
  IN IF l.wrap_env THEN <<BEGIN_TIKZ>> \o T \o <<END_TIKZ>> ELSE T

DocumentAround(content) ==
  <<"\n\\documentclass[tikz,border=", "4", "]{standalone}\n\\usepackage{tikz,",
    "}\n\\usetikzlibrary{", "}\n", "\n\\begin{document}\n">>
    \o content \o <<"\n\\end{document}\n">>

PositiveNumber(scale) ==
  scale.kind = "default" \/ scale.kind = "inf" \/ (scale.kind = "num" /\ scale.n > 0)

Rejected(p) ==
  /\ pc[p] = "raised"
  /\ temp_dir[p] = NonePath
  /\ Steps(p) \cap {"mkdtemp", "write", "compile", "convert"} = {}

\* C8 as stated: a request whose scale is zero, negative or not a number is
\* rejected before a temporary directory exists or an external program runs.
C8_Original ==
  \A p \in Procs :
    pc[p] \notin {"tikz", "off"} /\ ~PositiveNumber(line[p].scale) => Rejected(p)

InputValid(l) ==
  Truthy(l.input_file) => fs0[join(Cwd, l.input_file)].kind = "file"

\* C8 amended: a scale that float() cannot read, or nan or inf, is rejected before a
\* temporary directory exists or an external program runs; a scale that is a
\* finite number is accepted whatever its sign.
C8_ScaleIsAnyFloat ==
  \A p \in Procs :
    pc[p] \notin {"tikz", "off"} =>
      /\ line[p].scale.kind \in {"junk", "nan", "inf"} => Rejected(p)
      /\ line[p].scale.kind = "junk" => err[p] = "SystemExit" /\ trace[p] = <<>>
      /\ (line[p].scale.kind \in {"num", "default"} /\ InputValid(line[p]))
           => /\ err[p] \notin {"SystemExit", "ValueError", "OverflowError", "inputfile"}
              /\ pc[p] = "mkdtemp" \/ "mkdtemp" \in Steps(p)

\* A render with scale -0.125 has run the rasterizer, with density -37.
C8_Witness ==
  \E p \in Procs :
    /\ line[p].scale = [kind |-> "num", n |-> -1]
    /\ "convert" \in Steps(p) /\ argv[p] = <<"-", "3", "7">>

\* The scale times 300, cut toward zero.
ClaimedDensity(scale) ==
  IF scale.n >= 0 THEN (scale.n * 300) \div 8 ELSE -((-(scale.n * 300)) \div 8)

\* C9: the density on the rasterizer's command line, and the density of the
\* PNG it makes, is int(scale * 300); it is 300 by default, and it is not
\* negative when the scale is positive.
C9_Density ==
  \A p \in Procs :
    "convert" \in Steps(p) =>
      /\ density[p] = ClaimedDensity(line[p].scale)
      /\ argv[p] = str(ClaimedDensity(line[p].scale))
      /\ atoi(argv[p]) = ClaimedDensity(line[p].scale)
      /\ line[p].scale.kind = "default" => atoi(argv[p]) = 300
      /\ line[p].scale.n > 0 => atoi(argv[p]) >= 0
      /\ pc[p] = "returned" => result[p].dens = ClaimedDensity(line[p].scale)

\* A render with scale 0.125 (37.5 dots) has returned a PNG of density 37.
C9_Witness ==
  \E p \in Procs :
    /\ line[p].scale = [kind |-> "num", n |-> 1]
    /\ pc[p] = "returned" /\ argv[p] = <<"3", "7">> /\ result[p].dens = 37

\* C10: a render writes the file at export_file at most once and only after
\* the PDF was found, and writes nothing else in the working directory; a
\* render that failed at input_file or for want of a PDF has left the
\* working directory as it was; a render without export_file that has ended
\* has left the whole file system as it was.
C10_OnlyTheExport ==
  /\ \A n \in CwdNames :
       fs[<<"cwd", n>>] # fs0[<<"cwd", n>>]
         => \E p \in Procs : "export" \in Steps(p) /\ <<"cwd", n>> = ExportPath(line[p])
  /\ \A p \in Procs :
       /\ Count(trace[p], "export") <= 1
       /\ "export" \in Steps(p) => "check" \in Steps(p) /\ pdf[p].kind = "file"
       /\ Done(p) /\ err[p] \in {"inputfile", "NoPDF"} => CwdUnchanged
       /\ Done(p) /\ ~Truthy(line[p].export_file) => fs = fs0

\* A render asked to export over an old file found no PDF: the old file stays.
C10_Witness ==
  \E p \in Procs :
    /\ pc[p] = "raised" /\ err[p] = "NoPDF" /\ line[p].export_file = "out"
    /\ fs0[<<"cwd", "out">>] = OldOut /\ fs[<<"cwd", "out">>] = OldOut

====
